---- MODULE Spec2Model ----
(***************************************************************************)
(* Model of frp-multiuser (src/lib/server.go): a credential table loaded   *)
(* from a flat file, refreshed by a watcher goroutine and a reload         *)
(* coordinator goroutine, and consulted by concurrent HTTP handlers.       *)
(*                                                                         *)
(* Strings are sequences of one-character tokens; "SP", "CR" and "LF"      *)
(* stand for the space, carriage-return and newline characters.            *)
(***************************************************************************)
EXTENDS Naturals, Integers, Sequences, FiniteSets, TLC

\* ------------------------------------------------------------------ bounds
MaxRowLen == 3
MaxEvents == 1
NumHandlers == 1

\* -------------------------------------------------------- program constants
RefreshChanCap == 5
StatusOK == 200
StatusBadRequest == 400
StatusInternalServerError == 500

\* ---------------------------------------------------------------- strings
Alphabet == {"a", "b", "=", "SP", "CR", "LF"}

EmptyStr == << >>

\* unicode.IsSpace restricted to the alphabet (used by strings.TrimSpace)
IsSpaceNoCR(c) == c \in {"SP", "LF"}

IsSpace(c) == c \in {"SP", "CR", "LF"}

RECURSIVE TrimRightCR(_)
\* strings.TrimRight(s, "\r")
TrimRightCR(s) ==
    IF s # << >> /\ s[Len(s)] = "CR"
    THEN TrimRightCR(SubSeq(s, 1, Len(s) - 1))
    ELSE s

RECURSIVE TrimLeftSpace(_)
TrimLeftSpace(s) ==
    IF s # << >> /\ IsSpace(s[1]) THEN TrimLeftSpace(Tail(s)) ELSE s

RECURSIVE TrimRightSpace(_)
TrimRightSpace(s) ==
    IF s # << >> /\ IsSpace(s[Len(s)])
    THEN TrimRightSpace(SubSeq(s, 1, Len(s) - 1))
    ELSE s

\* strings.TrimSpace(s)
TrimSpace(s) == TrimRightSpace(TrimLeftSpace(s))

\* strings.Contains(row, "=")
Contains(row, c) == \E i \in 1..Len(row) : row[i] = c

RECURSIVE IndexFrom(_, _, _)
\* position of the first occurrence of c in s at or after i, 0 if none
IndexFrom(s, c, i) ==
    IF i > Len(s) THEN 0
    ELSE IF s[i] = c THEN i
    ELSE IndexFrom(s, c, i + 1)

\* strings.SplitN(row, c, 2): at most two parts, cut at the first c
SplitN2(row, c) ==
    LET p == IndexFrom(row, c, 1)
    IN  IF p = 0 THEN << row >>
        ELSE << SubSeq(row, 1, p - 1), SubSeq(row, p + 1, Len(row)) >>

RECURSIVE Split(_, _)
\* strings.Split(s, c): the segments between occurrences of c
Split(s, c) ==
    LET p == IndexFrom(s, c, 1)
    IN  IF p = 0 THEN << s >>
        ELSE << SubSeq(s, 1, p - 1) >> \o Split(SubSeq(s, p + 1, Len(s)), c)

\* ------------------------------------------------------------------- maps
\* A Go map[string]string is a function from its key set to values.
EmptyMap == [k \in {} |-> EmptyStr]

\* m[k] = v on a Go map
MapPut(m, k, v) == [x \in DOMAIN m \cup {k} |-> IF x = k THEN v ELSE m[x]]

\* m[k] read on a Go map: the zero value "" when the key is absent
MapGet(m, k) == IF k \in DOMAIN m THEN m[k] ELSE EmptyStr

RECURSIVE ParseRows(_, _)
\* the loop of readAuthFile over the rows, rows taken in order
ParseRows(rows, acc) ==
    IF rows = << >> THEN acc
    ELSE LET row == Head(rows)
             kvs == SplitN2(row, "=")
             next == IF Contains(row, "=") /\ TrimSpace(kvs[2]) # EmptyStr
                     THEN MapPut(acc, TrimSpace(kvs[1]), TrimSpace(kvs[2]))
                     ELSE acc
         IN  ParseRows(Tail(rows), next)

\* readAuthFile on the bytes read from the file
ParseAuthData(bytes) == ParseRows(Split(TrimRightCR(bytes), "LF"), EmptyMap)

\* ------------------------------------------------------------ environment
\* the file is missing or cannot be read: os.ReadFile returns an error
Unreadable == << "ENOENT" >>

\* the credential file at startup: a = a
FileAtStart == << "a", "=", "a" >>

\* the file later written in its place: b = a (CRLF), an entry with an empty
\* key, and an entry with an empty value
FileRewritten ==
    << "b", "SP", "=", "SP", "a", "CR", "LF", "=", "b", "LF", "a", "=" >>

\* credential files the environment may put in place
FileContents == { FileAtStart, FileRewritten }

\* request-handling goroutines that may run at once
Handlers == 1..NumHandlers

Users == { EmptyStr, << "a" >> }

Passwords == { EmptyStr, << "a" >>, << "b" >> }

\* request bodies: unreadable, undecodable, or a decoded envelope whose
\* metas may lack the "password" key
Requests ==
    { [kind |-> "readerr"], [kind |-> "malformed"] }
    \cup [kind : {"ok"}, user : Users, hasPassword : {TRUE}, password : Passwords]
    \cup [kind : {"ok"}, user : Users, hasPassword : {FALSE}, password : {EmptyStr}]

\* fsnotify.Op values that reach the watcher
EventOps == {"Write", "Remove"}

NoResp == [status |-> 0]

VARIABLES
    file,          \* content of the credential file, or Unreadable
    cfgAddrOk,     \* Config.BindAddress parses
    cfgInotify,    \* Config.Inotify
    mpc,           \* position of NewServer
    halted,        \* the process has exited
    Data,          \* Map.Data
    RefreshChan,   \* number of signals buffered in Map.RefreshChan
    lockReaders,   \* Map.Lock: read holders
    lockWriter,    \* Map.Lock: write holder present
    lockPending,   \* Map.Lock: a Lock() call is waiting for readers
    ctxDone,       \* ctx.Done() is closed
    wg,            \* sync.WaitGroup counter
    wpc,           \* position of the watcher goroutine
    watchOpen,     \* the fsnotify watcher holds its inotify resource
    watching,      \* the watch on the file is in place
    events,        \* w.Events: change events not yet received
    cpc,           \* position of the coordinator goroutine
    cBytes,        \* coordinator: bytes read this cycle
    cAuthMap,      \* coordinator: AuthMap of this cycle
    hpc,           \* per handler: position
    huser,         \* per handler: user
    hpassword,     \* per handler: password
    hcheck,        \* per handler: << check >>, << >> before it is assigned
    hresp,         \* per handler: response written
    installed,     \* history: the mapping of the last completed install
    pInput,        \* parser check: input bytes
    pOutput        \* parser check: result of readAuthFile

mainVars == << cfgAddrOk, cfgInotify, mpc, halted >>
storeVars == << Data, lockReaders, lockWriter, lockPending, installed >>
syncVars == << RefreshChan, ctxDone, wg >>
watcherVars == << wpc, watchOpen, watching, events >>
coordVars == << cpc, cBytes, cAuthMap >>
handlerVars == << hpc, huser, hpassword, hcheck, hresp >>
parseVars == << pInput, pOutput >>
vars == << file, mainVars, storeVars, syncVars, watcherVars, coordVars,
           handlerVars, parseVars >>

NilMap == EmptyMap

\* the parse of each file the environment uses, computed once
ParsedContents == [c \in FileContents |-> ParseAuthData(c)]

ReadAuthFileErrorIgnored(f) ==
    IF f = Unreadable
    THEN [map |-> NilMap, err |-> FALSE]
    ELSE [map |-> ParsedContents[f], err |-> FALSE]

\* readAuthFile(filename) on the current state f of the file: (nil, err) when
\* os.ReadFile fails, else the parsed mapping and a nil error
ReadAuthFile(f) ==
    IF f = Unreadable
    THEN [map |-> NilMap, err |-> TRUE]
    ELSE [map |-> IF f \in DOMAIN ParsedContents
                  THEN ParsedContents[f]
                  ELSE ParseAuthData(f),
          err |-> FALSE]
NoBytes == << "none" >>
NoCheck == << >>
Pending == << >>

\* ------------------------------------------------------------------- Init
InitProgram ==
    /\ mpc = "start"
    /\ halted = FALSE
    /\ Data = NilMap
    /\ installed = NilMap
    /\ RefreshChan = 0
    /\ lockReaders = 0
    /\ lockWriter = FALSE
    /\ lockPending = FALSE
    /\ ctxDone = FALSE
    /\ wg = 0
    /\ wpc = "none"
    /\ watchOpen = FALSE
    /\ watching = FALSE
    /\ events = << >>
    /\ cpc = "none"
    /\ cBytes = NoBytes
    /\ cAuthMap = NilMap
    /\ hpc = [h \in Handlers |-> "idle"]
    /\ huser = [h \in Handlers |-> EmptyStr]
    /\ hpassword = [h \in Handlers |-> EmptyStr]
    /\ hcheck = [h \in Handlers |-> NoCheck]
    /\ hresp = [h \in Handlers |-> NoResp]

Init ==
    /\ file \in {FileAtStart, Unreadable}
    /\ cfgAddrOk \in BOOLEAN
    /\ cfgInotify \in BOOLEAN
    /\ InitProgram
    /\ pInput = EmptyStr
    /\ pOutput = Pending

\* ------------------------------------------------- file system (environment)
\* a change event reaches w.Events only while the watch is in place
Notify(op) ==
    IF watching THEN events' = Append(events, op) ELSE events' = events

CanNotify == watching => Len(events) < MaxEvents

\* some process overwrites the credential file in place
FileWrite(c) ==
    /\ ~halted
    /\ file # Unreadable
    /\ file # c
    /\ CanNotify
    /\ file' = c
    /\ Notify("Write")
    /\ UNCHANGED << mainVars, storeVars, syncVars, wpc, watchOpen, watching,
                    coordVars, handlerVars, parseVars >>

\* the file is removed; inotify drops the watch on the removed inode
FileRemove ==
    /\ ~halted
    /\ file # Unreadable
    /\ CanNotify
    /\ file' = Unreadable
    /\ Notify("Remove")
    /\ watching' = FALSE
    /\ UNCHANGED << mainVars, storeVars, syncVars, wpc, watchOpen,
                    coordVars, handlerVars, parseVars >>

\* a new file is created at the path; it is not covered by any watch
FileCreate(c) ==
    /\ ~halted
    /\ file = Unreadable
    /\ file' = c
    /\ UNCHANGED << mainVars, storeVars, syncVars, watcherVars,
                    coordVars, handlerVars, parseVars >>

\* the underlying watch fails: fsnotify reports the error on w.Errors, which
\* inotifyAuthFile never receives from, and no further event reaches w.Events
WatchFails ==
    /\ ~halted
    /\ watching
    /\ watching' = FALSE
    /\ UNCHANGED << file, mainVars, storeVars, syncVars, wpc, watchOpen,
                    events, coordVars, handlerVars, parseVars >>

\* ---------------------------------------------------------------- NewServer
\* net.SplitHostPort(cfg.BindAddress); logger.Fatalf on error
MParseAddr ==
    /\ ~halted
    /\ mpc = "start"
    /\ IF cfgAddrOk
       THEN mpc' = "load" /\ halted' = FALSE
       ELSE mpc' = "fatal" /\ halted' = TRUE
    /\ UNCHANGED << file, cfgAddrOk, cfgInotify, storeVars, syncVars,
                    watcherVars, coordVars, handlerVars, parseVars >>

\* AuthMap, err := readAuthFile(cfg.AuthFile); Fatalf on error; m := &Map{...}
MLoad ==
    /\ ~halted
    /\ mpc = "load"
    /\ IF ReadAuthFile(file).err
       THEN /\ mpc' = "fatal"
            /\ halted' = TRUE
            /\ UNCHANGED << Data, installed >>
       ELSE /\ mpc' = "spawn"
            /\ halted' = FALSE
            /\ Data' = ReadAuthFile(file).map
            /\ installed' = ReadAuthFile(file).map
    /\ UNCHANGED << file, cfgAddrOk, cfgInotify, lockReaders, lockWriter,
                    lockPending, syncVars, watcherVars, coordVars,
                    handlerVars, parseVars >>

ReloadEnabledAlways(inotify) == TRUE

\* if cfg.Inotify: the two goroutines are started only when the flag is set
ReloadEnabled(inotify) == inotify

\* if cfg.Inotify { wg.Add(1); go ...; wg.Add(1); go ... }
MSpawn ==
    /\ ~halted
    /\ mpc = "spawn"
    /\ mpc' = "serve"
    /\ IF ReloadEnabled(cfgInotify)
       THEN wg' = wg + 2 /\ wpc' = "new" /\ cpc' = "select"
       ELSE UNCHANGED << wg, wpc, cpc >>
    /\ UNCHANGED << file, cfgAddrOk, cfgInotify, halted, storeVars,
                    RefreshChan, ctxDone, watchOpen, watching, events,
                    cBytes, cAuthMap, handlerVars, parseVars >>

\* server.ListenAndServe() returns (it only returns with an error), then
\* ctxFunc() is called
MServeReturn ==
    /\ ~halted
    /\ mpc = "serve"
    /\ mpc' = "wait"
    /\ ctxDone' = TRUE
    /\ UNCHANGED << file, cfgAddrOk, cfgInotify, halted, storeVars,
                    RefreshChan, wg, watcherVars, coordVars, handlerVars,
                    parseVars >>

\* wg.Wait() returns; NewServer and then main return
MWait ==
    /\ ~halted
    /\ mpc = "wait"
    /\ wg = 0
    /\ mpc' = "returned"
    /\ halted' = TRUE
    /\ UNCHANGED << file, cfgAddrOk, cfgInotify, storeVars, syncVars,
                    watcherVars, coordVars, handlerVars, parseVars >>

\* ------------------------------------------------------------- sync.RWMutex
\* RLock proceeds unless a writer holds the lock or waits for it
CanRLock(writer, pending) == ~writer /\ ~pending

CanLockIgnoringReaders(readers, writer) == ~writer

\* Lock proceeds once no reader and no writer holds the lock
CanLock(readers, writer) == readers = 0 /\ ~writer

\* --------------------------------------------------------- inotifyAuthFile
\* w, err := fsnotify.NewWatcher(); return err on failure
WNew(ok) ==
    /\ ~halted
    /\ wpc = "new"
    /\ IF ok
       THEN wpc' = "add" /\ watchOpen' = TRUE
       ELSE wpc' = "err" /\ watchOpen' = FALSE
    /\ UNCHANGED << file, mainVars, storeVars, syncVars, watching, events,
                    coordVars, handlerVars, parseVars >>

\* defer w.Close(); err = w.Add(filename); return err on failure
WAdd(ok) ==
    /\ ~halted
    /\ wpc = "add"
    /\ ok => file # Unreadable
    /\ IF ok
       THEN wpc' = "select" /\ watching' = TRUE /\ watchOpen' = watchOpen
       ELSE wpc' = "err" /\ watching' = FALSE /\ watchOpen' = FALSE
    /\ UNCHANGED << file, mainVars, storeVars, syncVars, events,
                    coordVars, handlerVars, parseVars >>

\* goroutine of NewServer: err != nil, ctxFunc()
WErrCancel ==
    /\ ~halted
    /\ wpc = "err"
    /\ wpc' = "fatal"
    /\ ctxDone' = TRUE
    /\ UNCHANGED << file, mainVars, storeVars, RefreshChan, wg, watchOpen,
                    watching, events, coordVars, handlerVars, parseVars >>

\* logger.Fatalf: the process exits, deferred wg.Done() does not run
WFatal ==
    /\ ~halted
    /\ wpc = "fatal"
    /\ halted' = TRUE
    /\ UNCHANGED << file, cfgAddrOk, cfgInotify, mpc, storeVars, syncVars,
                    watcherVars, coordVars, handlerVars, parseVars >>

\* case <-(*ctx).Done(): return nil; deferred w.Close() and wg.Done()
WCtxDone ==
    /\ ~halted
    /\ wpc = "select"
    /\ ctxDone
    /\ wpc' = "done"
    /\ watchOpen' = FALSE
    /\ watching' = FALSE
    /\ events' = << >>
    /\ wg' = wg - 1
    /\ UNCHANGED << file, mainVars, storeVars, RefreshChan, ctxDone,
                    coordVars, handlerVars, parseVars >>

EventNextPcAnyOp(op) == "send"

\* switch event.Op: only fsnotify.Write leads to the send
EventNextPc(op) == IF op = "Write" THEN "send" ELSE "select"

\* case event := <-w.Events
WEvent ==
    /\ ~halted
    /\ wpc = "select"
    /\ events # << >>
    /\ wpc' = EventNextPc(Head(events))
    /\ events' = Tail(events)
    /\ UNCHANGED << file, mainVars, storeVars, syncVars, watchOpen, watching,
                    coordVars, handlerVars, parseVars >>

CanSendAlways(n) == TRUE

\* a send on the buffered channel proceeds only while the buffer has room
CanSend(n) == n < RefreshChanCap

\* *refreshChan <- struct{}{}: blocks while the buffer is full
WSend ==
    /\ ~halted
    /\ wpc = "send"
    /\ CanSend(RefreshChan)
    /\ RefreshChan' = RefreshChan + 1
    /\ wpc' = "select"
    /\ UNCHANGED << file, mainVars, storeVars, ctxDone, wg, watchOpen,
                    watching, events, coordVars, handlerVars, parseVars >>

\* ------------------------------------------------- reload coordinator goroutine
\* case <-ctx.Done(): return; deferred wg.Done()
CCtxDone ==
    /\ ~halted
    /\ cpc = "select"
    /\ ctxDone
    /\ cpc' = "done"
    /\ wg' = wg - 1
    /\ UNCHANGED << file, mainVars, storeVars, RefreshChan, ctxDone,
                    watcherVars, cBytes, cAuthMap, handlerVars, parseVars >>

\* case <-m.RefreshChan
CRecv ==
    /\ ~halted
    /\ cpc = "select"
    /\ RefreshChan > 0
    /\ RefreshChan' = RefreshChan - 1
    /\ cpc' = "read"
    /\ UNCHANGED << file, mainVars, storeVars, ctxDone, wg, watcherVars,
                    cBytes, cAuthMap, handlerVars, parseVars >>

ReadNextPcReturn(err) == IF err THEN "done" ELSE "lock"

ReadNextPcNoContinue(err) == "lock"

\* if err != nil { log; continue }
ReadNextPc(err) == IF err THEN "select" ELSE "lock"

\* AuthMap, err := readAuthFile(cfg.AuthFile)
CRead ==
    /\ ~halted
    /\ cpc = "read"
    /\ cpc' = ReadNextPc(ReadAuthFile(file).err)
    /\ cBytes' = IF ReadAuthFile(file).err THEN NoBytes ELSE file
    /\ cAuthMap' = ReadAuthFile(file).map
    /\ UNCHANGED << file, mainVars, storeVars, syncVars, watcherVars,
                    handlerVars, parseVars >>

\* m.Lock.Lock() is called: later RLock calls wait behind it
CLockCall ==
    /\ ~halted
    /\ cpc = "lock"
    /\ cpc' = "lockwait"
    /\ lockPending' = TRUE
    /\ UNCHANGED << file, mainVars, Data, lockReaders, lockWriter, installed,
                    syncVars, watcherVars, cBytes, cAuthMap, handlerVars,
                    parseVars >>

\* m.Lock.Lock() returns
CLockAcquire ==
    /\ ~halted
    /\ cpc = "lockwait"
    /\ CanLock(lockReaders, lockWriter)
    /\ lockWriter' = TRUE
    /\ lockPending' = FALSE
    /\ cpc' = "assign"
    /\ UNCHANGED << file, mainVars, Data, lockReaders, installed, syncVars,
                    watcherVars, cBytes, cAuthMap, handlerVars, parseVars >>

ReplaceMerged(old, new) ==
    [k \in DOMAIN old \cup DOMAIN new |->
        IF k \in DOMAIN new THEN new[k] ELSE old[k]]

ReplaceDropped(old, new) == old

\* m.Data = AuthMap: the reference is replaced wholesale
Replace(old, new) == new

AssignNextPcReread == "read"

\* the statement after m.Data = AuthMap is m.Lock.Unlock()
AssignNextPc == "unlock"

CAssign ==
    /\ ~halted
    /\ cpc = "assign"
    /\ Data' = Replace(Data, cAuthMap)
    /\ cpc' = AssignNextPc
    /\ UNCHANGED << file, mainVars, lockReaders, lockWriter, lockPending,
                    installed, syncVars, watcherVars, cBytes, cAuthMap,
                    handlerVars, parseVars >>

\* m.Lock.Unlock(); back to the select with fresh locals
CUnlock ==
    /\ ~halted
    /\ cpc = "unlock"
    /\ lockWriter' = FALSE
    /\ installed' = cAuthMap
    /\ cpc' = "select"
    /\ cBytes' = NoBytes
    /\ cAuthMap' = NilMap
    /\ UNCHANGED << file, mainVars, Data, lockReaders, lockPending, syncVars,
                    watcherVars, handlerVars, parseVars >>

\* ------------------------------------------------------------------ Handler
\* body of an error response: {"msg": "<error>"}
ErrorResp(status, msg) == [status |-> status, body |-> [msg |-> msg]]

\* json.Marshal(pluginResponse) written with StatusOK
DecisionResp(reject, reason, unchange) ==
    [status |-> StatusOK,
     body |-> [reject |-> reject, reject_reason |-> reason,
               unchange |-> unchange]]

EmptyReason == << "user or meta password can not be empty" >>

\* fmt.Sprintf with the user between two backquotes ("BQ")
InvalidReason(user) ==
    << "user: ", "BQ" >> \o user \o << "BQ", " invalid password" >>

UnmarshalErrorStatusAs500 == StatusInternalServerError

\* status written when json.Unmarshal fails
UnmarshalErrorStatus == StatusBadRequest

IsEmptyCredUserOnly(user, password) == user = EmptyStr

IsEmptyCredBoth(user, password) == user = EmptyStr /\ password = EmptyStr

\* user == "" || password == ""
IsEmptyCred(user, password) == user = EmptyStr \/ password = EmptyStr

CheckKeyPresent(data, user, password) == user \in DOMAIN data

\* m.Data[user] == password
Check(data, user, password) == MapGet(data, user) = password

\* pluginLoginContent.Metas["password"]: "" when the key or the map is absent
MetaPassword(req) == IF req.hasPassword THEN req.password ELSE EmptyStr

\* the response built from check
CheckedResp(check, user) ==
    IF check
    THEN DecisionResp(FALSE, EmptyStr, TRUE)
    ELSE DecisionResp(TRUE, InvalidReason(user), FALSE)

\* a request arrives; the body is read and decoded and the empty test is
\* made; Handler returns at once unless the store has to be consulted
HReceive(h, req) ==
    /\ ~halted
    /\ mpc = "serve"
    /\ hpc[h] = "idle"
    /\ IF req.kind = "readerr"
       THEN /\ hresp' = [hresp EXCEPT ![h] =
                            ErrorResp(StatusInternalServerError, "read error")]
            /\ hpc' = [hpc EXCEPT ![h] = "done"]
            /\ UNCHANGED << huser, hpassword >>
       ELSE IF req.kind = "malformed"
       THEN /\ hresp' = [hresp EXCEPT ![h] =
                            ErrorResp(UnmarshalErrorStatus, "unmarshal error")]
            /\ hpc' = [hpc EXCEPT ![h] = "done"]
            /\ UNCHANGED << huser, hpassword >>
       ELSE IF IsEmptyCred(req.user, MetaPassword(req))
       THEN /\ hresp' = [hresp EXCEPT ![h] =
                            DecisionResp(TRUE, EmptyReason, FALSE)]
            /\ hpc' = [hpc EXCEPT ![h] = "done"]
            /\ UNCHANGED << huser, hpassword >>
       ELSE /\ huser' = [huser EXCEPT ![h] = req.user]
            /\ hpassword' = [hpassword EXCEPT ![h] = MetaPassword(req)]
            /\ hresp' = hresp
            /\ hpc' = [hpc EXCEPT ![h] = "rlock"]
    /\ UNCHANGED << file, mainVars, storeVars, syncVars, watcherVars,
                    coordVars, hcheck, parseVars >>

\* m.Lock.RLock()
HRLock(h) ==
    /\ ~halted
    /\ hpc[h] = "rlock"
    /\ CanRLock(lockWriter, lockPending)
    /\ lockReaders' = lockReaders + 1
    /\ hpc' = [hpc EXCEPT ![h] = "lookup"]
    /\ UNCHANGED << file, mainVars, Data, lockWriter, lockPending, installed,
                    syncVars, watcherVars, coordVars, huser, hpassword,
                    hcheck, hresp, parseVars >>

\* check := m.Data[user] == password
HLookup(h) ==
    /\ ~halted
    /\ hpc[h] = "lookup"
    /\ hcheck' = [hcheck EXCEPT ![h] =
                        << Check(Data, huser[h], hpassword[h]) >>]
    /\ hpc' = [hpc EXCEPT ![h] = "runlock"]
    /\ UNCHANGED << file, mainVars, storeVars, syncVars, watcherVars,
                    coordVars, huser, hpassword, hresp, parseVars >>

ReleaseReadKept(n) == n

\* m.Lock.RUnlock(): one reader fewer holds the lock
ReleaseRead(n) == n - 1

\* m.Lock.RUnlock(), then the response is built from check and written and
\* Handler returns: its locals are gone
HRUnlock(h) ==
    /\ ~halted
    /\ hpc[h] = "runlock"
    /\ lockReaders' = ReleaseRead(lockReaders)
    /\ hresp' = [hresp EXCEPT ![h] = CheckedResp(hcheck[h][1], huser[h])]
    /\ hpc' = [hpc EXCEPT ![h] = "done"]
    /\ huser' = [huser EXCEPT ![h] = EmptyStr]
    /\ hpassword' = [hpassword EXCEPT ![h] = EmptyStr]
    /\ hcheck' = [hcheck EXCEPT ![h] = NoCheck]
    /\ UNCHANGED << file, mainVars, Data, lockWriter, lockPending, installed,
                    syncVars, watcherVars, coordVars, parseVars >>

\* the response has been sent; the connection takes the next request
HReturn(h) ==
    /\ ~halted
    /\ hpc[h] = "done"
    /\ hpc' = [hpc EXCEPT ![h] = "idle"]
    /\ hresp' = [hresp EXCEPT ![h] = NoResp]
    /\ UNCHANGED << file, mainVars, storeVars, syncVars, watcherVars,
                    coordVars, huser, hpassword, hcheck, parseVars >>

\* ------------------------------------------------------------ specification
FileStep ==
    \/ \E c \in FileContents : FileWrite(c)
    \/ FileRemove
    \/ \E c \in FileContents : FileCreate(c)
    \/ WatchFails

MainStep ==
    MParseAddr \/ MLoad \/ MSpawn \/ MServeReturn \/ MWait

WatcherStep ==
    \/ \E ok \in BOOLEAN : WNew(ok)
    \/ \E ok \in BOOLEAN : WAdd(ok)
    \/ WErrCancel
    \/ WFatal
    \/ WCtxDone
    \/ WEvent
    \/ WSend

CoordStep ==
    CCtxDone \/ CRecv \/ CRead \/ CLockCall \/ CLockAcquire \/ CAssign
    \/ CUnlock

HandlerStep ==
    \E h \in Handlers :
        \/ \E req \in Requests : HReceive(h, req)
        \/ HRLock(h)
        \/ HLookup(h)
        \/ HRUnlock(h)
        \/ HReturn(h)

Next == FileStep \/ MainStep \/ WatcherStep \/ CoordStep \/ HandlerStep

Spec == Init /\ [][Next]_vars

\* Scheduling: every goroutine that can take a step eventually takes one.
\* A select with several ready cases picks one at random, so a case that is
\* ready again and again is eventually taken (strong fairness for the two
\* ctx.Done() cases).  Nothing is assumed of the environment: file changes,
\* request arrivals and the return of ListenAndServe may never happen.
MainProgress == MParseAddr \/ MLoad \/ MSpawn \/ MWait

WatcherProgress ==
    \/ \E ok \in BOOLEAN : WNew(ok)
    \/ \E ok \in BOOLEAN : WAdd(ok)
    \/ WErrCancel
    \/ WFatal
    \/ WEvent
    \/ WSend

CoordProgress ==
    CRecv \/ CRead \/ CLockCall \/ CLockAcquire \/ CAssign \/ CUnlock

\* each handler goroutine is scheduled on its own
HandlerProgress(h) == HRLock(h) \/ HLookup(h) \/ HRUnlock(h) \/ HReturn(h)

Fairness ==
    /\ WF_vars(MainProgress)
    /\ WF_vars(WatcherProgress)
    /\ SF_vars(WCtxDone)
    /\ WF_vars(CoordProgress)
    /\ SF_vars(CCtxDone)
    /\ \A h \in Handlers : WF_vars(HandlerProgress(h))

FairSpec == Spec /\ Fairness

\* ------------------------------------------------ readAuthFile on its own
RowAlphabet == {"a", "=", "SP", "CR"}

RECURSIVE SeqsUpTo(_, _)
SeqsUpTo(S, n) ==
    IF n = 0 THEN { << >> }
    ELSE LET shorter == SeqsUpTo(S, n - 1)
         IN  shorter \cup { Append(t, c) : t \in shorter, c \in S }

Rows == SeqsUpTo(RowAlphabet, MaxRowLen)

\* file contents of one row or of two rows joined by a newline
ParseInputs == Rows \cup { r1 \o << "LF" >> \o r2 : r1 \in Rows, r2 \in Rows }

ParseInit ==
    /\ file = Unreadable
    /\ cfgAddrOk = FALSE
    /\ cfgInotify = FALSE
    /\ InitProgram
    /\ pInput \in ParseInputs
    /\ pOutput = Pending

\* readAuthFile is called on a file holding pInput
PApply ==
    /\ pOutput = Pending
    /\ pOutput' = << ReadAuthFile(pInput) >>
    /\ UNCHANGED << file, mainVars, storeVars, syncVars, watcherVars,
                    coordVars, handlerVars, pInput >>

ParseSpec == ParseInit /\ [][PApply]_vars

\* ======================================================================
\* Properties
\* ======================================================================

\* --- the format of the credential file, stated without the parsing loop
\* positions at which a line of s starts
LineStarts(s) == { i \in 1..(Len(s) + 1) : i = 1 \/ s[i - 1] = "LF" }

\* the line of s starting at position i: up to the next newline or the end
LineAt(s, i) ==
    LET stops == { j \in i..(Len(s) + 1) : j = Len(s) + 1 \/ s[j] = "LF" }
        stop == CHOOSE j \in stops : \A k \in stops : j <= k
    IN  SubSeq(s, i, stop - 1)

\* t without its leading and trailing blanks (space, carriage return)
Trimmed(t) ==
    LET solid == { i \in 1..Len(t) : t[i] \notin {"SP", "CR", "LF"} }
    IN  IF solid = {} THEN << >>
        ELSE SubSeq(t, CHOOSE i \in solid : \A k \in solid : i <= k,
                       CHOOSE j \in solid : \A k \in solid : k <= j)

FirstEq(line) ==
    CHOOSE p \in 1..Len(line) :
        line[p] = "=" /\ \A q \in 1..(p - 1) : line[q] # "="

KeyOf(line) == Trimmed(SubSeq(line, 1, FirstEq(line) - 1))

ValueOf(line) == Trimmed(SubSeq(line, FirstEq(line) + 1, Len(line)))

\* the mapping a credential file denotes
ExpectedMap(s) ==
    LET entries == { i \in LineStarts(s) :
                        /\ \E p \in 1..Len(LineAt(s, i)) : LineAt(s, i)[p] = "="
                        /\ ValueOf(LineAt(s, i)) # << >> }
        keys == { KeyOf(LineAt(s, i)) : i \in entries }
        last(k) == CHOOSE i \in entries :
                      /\ KeyOf(LineAt(s, i)) = k
                      /\ \A j \in entries : KeyOf(LineAt(s, j)) = k => j <= i
    IN  [k \in keys |-> ValueOf(LineAt(s, last(k)))]

\* C8: for every readable file content readAuthFile returns, without error,
\* exactly the mapping of the lines containing "=", cut at the first "=",
\* key and value trimmed (carriage return included), entries with an empty
\* trimmed value left out, the last occurrence of a key winning.
C8_ParseMatchesFormat ==
    pOutput # Pending =>
        pOutput[1] = [map |-> ExpectedMap(pInput), err |-> FALSE]

\* a CRLF file with a duplicated key has been parsed, the last entry won
C8_Witness ==
    /\ pInput = << "=", "a", "CR", "LF", "=", "a", "a" >>
    /\ pOutput # Pending
    /\ pOutput[1].map = [k \in { << >> } |-> << "a", "a" >>]

\* --- helpers of the properties below
\* the mapping each file of the environment denotes
MapOfContent == [c \in FileContents |-> ExpectedMap(c)]

MapAtStart == ExpectedMap(FileAtStart)

MapRewritten == ExpectedMap(FileRewritten)

\* handlers between RLock and RUnlock
InLookup(h) == hpc[h] \in {"lookup", "runlock"}

\* the password m stores for user u equals pw
Stored(m, u, pw) == u \in DOMAIN m /\ m[u] = pw

\* u occurs in the text t
Names(t, u) == \E i \in 1..Len(t) : SubSeq(t, i, i + Len(u) - 1) = u

IsDecision(r) == r.status = StatusOK /\ DOMAIN r.body = {"reject", "reject_reason", "unchange"}

\* C1: a lookup observes one whole mapping.  After every step, a handler
\* between RLock and RUnlock finds no writer holding the lock and the check it
\* computed is the one the mapping in place gives; the mapping changes only at
\* the initial load or under the write lock with no lookup in progress, and
\* then to the mapping the reload cycle built, in one step.
C1_LookupSeesWholeMapping ==
    [][/\ \A h \in Handlers :
            /\ InLookup(h)' => ~lockWriter' /\ lockReaders' > 0
            /\ hpc'[h] = "runlock" =>
                   hcheck'[h][1] = Stored(Data', huser'[h], hpassword'[h])
       /\ Data' # Data =>
            \/ mpc = "load"
            \/ /\ lockWriter
               /\ lockReaders = 0
               /\ \A h \in Handlers : ~InLookup(h)
               /\ Data' = cAuthMap
               /\ cAuthMap = MapOfContent[cBytes]]_vars

\* a lookup is in progress while the coordinator waits for the write lock
\* with a different mapping in hand
C1_Witness ==
    \E h \in Handlers :
        /\ hpc[h] = "runlock"
        /\ cpc = "lockwait"
        /\ cAuthMap = MapRewritten
        /\ Data = MapAtStart
        /\ hcheck[h] = << TRUE >>

\* C2: a lookup made while the read lock is held is answered from the
\* mapping of the last completed install (initial load or replace), never
\* from an earlier one.
C2_LookupFromLatestInstalled ==
    \A h \in Handlers :
        hpc[h] = "runlock" =>
            hcheck[h][1] = Stored(installed, huser[h], hpassword[h])

\* after a replace installed the rewritten file, a lookup of a/a, which the
\* start mapping would accept, is answered FALSE
C2_Witness ==
    \E h \in Handlers :
        /\ hpc[h] = "runlock"
        /\ installed = MapRewritten
        /\ installed # MapAtStart
        /\ huser[h] = << "a" >>
        /\ hpassword[h] = << "a" >>
        /\ hcheck[h] = << FALSE >>

\* C4: a reload cycle whose read fails leaves the store as it was: the
\* coordinator goes straight back to its select, the mapping and the lock are
\* untouched; every step that leaves the coordinator seeking or holding the
\* write lock leaves it with a mapping read successfully in this cycle.
C4_FailedReadKeepsMapping ==
    [][/\ cpc' \in {"lock", "lockwait", "assign", "unlock"} =>
            cBytes' \in FileContents /\ cAuthMap' = MapOfContent[cBytes']
       /\ (cpc = "read" /\ cpc' # "read" /\ file = Unreadable) =>
            /\ cpc' = "select"
            /\ Data' = Data
            /\ installed' = installed
            /\ lockWriter' = lockWriter
            /\ lockPending' = lockPending
            /\ lockReaders' = lockReaders]_vars

\* the coordinator is about to read a file that cannot be read, while a
\* reloaded mapping is in place
C4_Witness ==
    /\ cpc = "read"
    /\ file = Unreadable
    /\ Data = MapRewritten
    /\ ~lockWriter

\* decodable requests with a non-empty user and a non-empty password
FullRequests ==
    { req \in Requests :
        /\ req.kind = "ok"
        /\ req.user # << >>
        /\ req.hasPassword
        /\ req.password # << >> }

\* decodable requests whose user is empty or whose password is empty or absent
EmptyRequests == { req \in Requests : req.kind = "ok" } \ FullRequests

\* C5: a decodable request with non-empty user and password is taken to the
\* store with exactly these credentials, and its answer is HTTP 200 with
\* exactly one of unchange and reject: unchange if and only if the password
\* stored for the user in the mapping in place during the lookup equals the
\* supplied one, else reject with a reason naming the user.
C5_DecisionMatchesStore ==
    [][\A h \in Handlers :
        /\ (hpc[h] = "idle" /\ hpc'[h] # "idle") =>
            \A req \in FullRequests :
              HReceive(h, req) =>
                /\ hpc'[h] = "rlock"
                /\ huser'[h] = req.user
                /\ hpassword'[h] = req.password
                /\ hresp'[h] = NoResp
        /\ (hpc[h] \in {"rlock", "lookup", "runlock"} /\ hpc'[h] = "done") =>
                /\ hpc[h] = "runlock"
                /\ IsDecision(hresp'[h])
                /\ hresp'[h].body.unchange # hresp'[h].body.reject
                /\ hresp'[h].body.unchange <=>
                       Stored(Data, huser[h], hpassword[h])
                /\ hresp'[h].body.reject =>
                       Names(hresp'[h].body.reject_reason, huser[h])]_vars

\* user a has been refused with the wrong password while a stands in the
\* mapping with another one
C5_Witness ==
    \E h \in Handlers :
        /\ hpc[h] = "done"
        /\ hresp[h] = DecisionResp(TRUE, InvalidReason(<< "a" >>), FALSE)
        /\ Data = MapAtStart

\* C6: a decodable request whose user is empty or whose password is empty or
\* absent is rejected at once with the fixed reason and HTTP 200, whatever
\* the store holds, and the store is not consulted: no lock is taken and no
\* check is computed.
C6_EmptyCredentialRejected ==
    [][\A h \in Handlers :
        (hpc[h] = "idle" /\ hpc'[h] # "idle") =>
          \A req \in EmptyRequests :
            HReceive(h, req) =>
                /\ hpc'[h] = "done"
                /\ hresp'[h].status = StatusOK
                /\ hresp'[h].body =
                       [reject |-> TRUE,
                        reject_reason |->
                            << "user or meta password can not be empty" >>,
                        unchange |-> FALSE]
                /\ hcheck'[h] = NoCheck
                /\ lockReaders' = lockReaders]_vars

\* an empty-credential reject has been written while the mapping holds an
\* entry under the empty username
C6_Witness ==
    \E h \in Handlers :
        /\ hpc[h] = "done"
        /\ hresp[h].status = StatusOK
        /\ hresp[h].body.reject_reason = EmptyReason
        /\ << >> \in DOMAIN Data

\* C7: a body that does not decode is answered with HTTP 400 and a body made
\* of a msg field; no decision is produced and the store is not consulted.
C7_MalformedBodyIs400 ==
    [][\A h \in Handlers :
            (hpc[h] = "idle" /\ hpc'[h] # "idle"
                /\ HReceive(h, [kind |-> "malformed"])) =>
                /\ hpc'[h] = "done"
                /\ hresp'[h].status = 400
                /\ DOMAIN hresp'[h].body = {"msg"}
                /\ hcheck'[h] = NoCheck
                /\ lockReaders' = lockReaders]_vars

\* a 400 response has been written
C7_Witness ==
    \E h \in Handlers :
        /\ hpc[h] = "done"
        /\ hresp[h].status = 400
        /\ hresp[h].body.msg = "unmarshal error"

\* C9: a signal leaves the queue only by the coordinator starting a reload
\* cycle, a cycle starts only by taking one signal, and a cycle whose read
\* succeeded ends with the store holding the mapping of the content read in
\* that cycle.
C9_SignalStartsOneCycle ==
    [][/\ RefreshChan' < RefreshChan =>
            /\ RefreshChan' = RefreshChan - 1
            /\ cpc = "select"
            /\ cpc' = "read"
       /\ (cpc' = "read" /\ cpc # "read") =>
            RefreshChan' = RefreshChan - 1
       /\ (cpc = "read" /\ cpc' # "read" /\ file # Unreadable) =>
            cpc' = "lock" /\ cBytes' = file
       /\ (cpc # "select" /\ cpc' = "select" /\ cBytes # NoBytes) =>
            /\ cpc = "unlock"
            /\ Data' = MapOfContent[cBytes]
            /\ installed' = MapOfContent[cBytes]]_vars

\* a cycle that read the rewritten file has put its mapping in place
C9_Witness ==
    /\ cpc = "unlock"
    /\ cBytes = FileRewritten
    /\ Data = MapRewritten
    /\ Data # MapAtStart

\* C3: with live-reload on, once ListenAndServe has returned and ctxFunc()
\* was called, the watcher and the coordinator exit, the watcher having
\* closed its watch, and wg.Wait() returns.  (A run ended by the watcher's
\* own logger.Fatalf is not held against the claim.)
C3_ShutdownCompletes ==
    (cfgInotify /\ mpc = "wait") ~>
        \/ /\ wpc = "done"
           /\ ~watchOpen
           /\ cpc = "done"
           /\ mpc = "returned"
        \/ wpc = "fatal"

\* C10: with live-reload on, a file that is never removed, and a service
\* that keeps serving without cancellation, once the file is no longer
\* written the store ends up holding the mapping of its final content.
C10_EventuallyConsistent ==
    \A c \in FileContents :
        ( /\ [](file # Unreadable)
          /\ <>[](/\ file = c
                  /\ cfgInotify
                  /\ mpc = "serve"
                  /\ ~ctxDone
                  /\ ~halted) )
        => <>[](Data = ExpectedMap(c))

\* C11: the reload-signal queue never holds more than 5 signals and no
\* signal is dropped: a watcher holding a signal leaves its send only by
\* adding exactly one signal to the queue, and stays in the send while the
\* queue is full; as long as cancellation never fires, a watcher holding a
\* signal eventually enqueues it and a queued signal is eventually taken by
\* the coordinator.
C11_QueueBoundedNoDrop ==
    /\ [][/\ RefreshChan' <= 5
          /\ (wpc = "send" /\ wpc' # "send") =>
                wpc' = "select" /\ RefreshChan' = RefreshChan + 1
          /\ (wpc = "send" /\ RefreshChan = 5 /\ RefreshChan' = 5) =>
                wpc' = "send"
          /\ RefreshChan' > RefreshChan => wpc = "send"]_vars
    /\ ([]~ctxDone =>
          /\ (wpc = "send") ~> (wpc = "select")
          /\ (RefreshChan > 0) ~> (cpc = "read"))

\* the queue is full and the watcher waits in its send with one more signal
C11_Witness ==
    /\ RefreshChan = 5
    /\ wpc = "send"
    /\ cpc = "lockwait"
    /\ ~ctxDone

\* C12: the watcher enqueues exactly one signal for each write event it
\* receives and none for an event of another kind; nothing else enqueues a
\* signal.  The queue grows only by the watcher's send, by one; the watcher
\* comes to its send only by receiving a write event; a received event of
\* another kind leaves the watcher at its select and the queue as it was.
C12_OneSignalPerWriteEvent ==
    [][/\ RefreshChan' > RefreshChan =>
            /\ wpc = "send" /\ wpc' = "select"
            /\ RefreshChan' = RefreshChan + 1
       /\ (wpc = "send" /\ wpc' # "send") =>
            RefreshChan' = RefreshChan + 1
       /\ (wpc # "send" /\ wpc' = "send") =>
            /\ wpc = "select" /\ events # << >>
            /\ Head(events) = "Write" /\ events' = Tail(events)
       /\ (wpc = "select" /\ wpc' # "done" /\ events # << >>
              /\ events' = Tail(events)) =>
            /\ RefreshChan' = RefreshChan
            /\ wpc' = (IF Head(events) = "Write" THEN "send" ELSE "select")
      ]_vars

\* one write event was received and signalled, then the removal of the file
\* was received and no second signal followed
C12_Witness ==
    /\ wpc = "select"
    /\ watchOpen /\ ~watching
    /\ events = << >>
    /\ RefreshChan = 1
    /\ cpc = "select"
    /\ Data = MapAtStart
    /\ ~ctxDone

\* C13: the coordinator never holds the write lock while it reads the file.
\* Whenever the write lock is held the coordinator is at the assignment or at
\* the unlock and the mapping it is about to install is already the complete
\* mapping of one file content; while the lock is held the coordinator does
\* nothing but assign that mapping and then release the lock.
C13_NoIOUnderWriteLock ==
    [][/\ lockWriter' =>
            /\ cpc' \in {"assign", "unlock"}
            /\ cBytes' \in FileContents
            /\ cAuthMap' = MapOfContent[cBytes']
       /\ cpc' = "read" => ~lockWriter'
       /\ (lockWriter /\ cpc' # cpc) =>
            \/ /\ cpc = "assign" /\ cpc' = "unlock"
               /\ lockWriter' /\ Data' = cAuthMap
            \/ /\ cpc = "unlock" /\ cpc' = "select"
               /\ ~lockWriter' /\ Data' = Data
       /\ (~lockWriter /\ lockWriter') =>
            cpc = "lockwait" /\ cAuthMap' = cAuthMap /\ cBytes' = cBytes
      ]_vars

\* the write lock is held for the assignment of the rewritten file's mapping
\* while a request waits for the read lock and the file is already gone
C13_Witness ==
    /\ lockWriter
    /\ cpc = "assign"
    /\ cAuthMap = MapRewritten
    /\ Data = MapAtStart
    /\ hpc[1] = "rlock"
    /\ file = Unreadable

\* C14: a bind address that does not parse, or an initial load that fails,
\* ends the process with nothing started: the watcher and the coordinator
\* were never spawned, no request was or will be handled and no response was
\* written.  Whenever a request is being handled the server is past a
\* successful load and the store holds the complete mapping of a file content.
C14_NoPartialStartup ==
    [][/\ (mpc = "start" /\ mpc' # "start") =>
            (mpc' = "fatal" <=> ~cfgAddrOk)
       /\ (mpc = "load" /\ mpc' # "load") =>
            /\ mpc' = "fatal" <=> file = Unreadable
            /\ mpc' # "fatal" => Data' = MapOfContent[file]
       /\ mpc' = "fatal" =>
            /\ halted'
            /\ wpc' = "none" /\ cpc' = "none" /\ wg' = 0
            /\ RefreshChan' = 0 /\ ~ctxDone'
            /\ \A h \in Handlers : hpc'[h] = "idle" /\ hresp'[h] = NoResp
       /\ \A h \in Handlers :
            hpc'[h] # "idle" =>
                /\ mpc' \in {"serve", "wait", "returned"}
                /\ \E c \in FileContents : Data' = MapOfContent[c]
      ]_vars

\* the bind address parsed, the file could not be read at the initial load
\* and the process has exited although live reload was asked for
C14_Witness ==
    /\ mpc = "fatal"
    /\ cfgAddrOk
    /\ cfgInotify
    /\ halted
    /\ file = Unreadable
    /\ Data = NilMap

\* C15: with live reload enabled, when establishing the watch fails the
\* process exits without serving traffic: in no state in which the watch has
\* failed to be established is a request being handled or a response written.
C15_NoTrafficWhenWatchFails ==
    wpc \in {"err", "fatal"} =>
        \A h \in Handlers : hpc[h] = "idle" /\ hresp[h] = NoResp

\* C16: the coordinator exits only on cancellation: whenever it has
\* terminated the context is cancelled.  A reload whose read fails brings the
\* coordinator back to its select with the process, the context, the queue
\* and the mapping as they were; at its select with a signal queued it can
\* take that signal; and no step of the coordinator ends the process.
C16_CoordinatorExitsOnlyOnCancel ==
    [][/\ cpc' = "done" => ctxDone'
       /\ (cpc = "read" /\ cpc' # "read" /\ file = Unreadable) =>
            /\ cpc' = "select"
            /\ halted' = halted /\ ctxDone' = ctxDone
            /\ RefreshChan' = RefreshChan /\ Data' = Data
       /\ (cpc = "select" /\ cpc' # "select") =>
            \/ cpc' = "read" /\ RefreshChan' = RefreshChan - 1
            \/ cpc' = "done" /\ ctxDone
       /\ (cpc = "select" /\ RefreshChan > 0 /\ ~halted) => ENABLED CRecv
       /\ (~halted /\ halted') => cpc' = cpc
      ]_vars

\* the coordinator is about to read a file that is gone while a later signal
\* is already queued behind the one it took
C16_Witness ==
    /\ cpc = "read"
    /\ file = Unreadable
    /\ RefreshChan = 1
    /\ ~ctxDone
    /\ ~halted

\* C17: once the watch has been established, the watcher terminates when the
\* underlying watch fails, not only on cancellation: from a state in which
\* the watcher waits at its select and the watch has failed, the watcher
\* comes to terminate without the context having to be cancelled first.
C17_WatcherEndsOnWatchFailure ==
    (wpc = "select" /\ watchOpen /\ ~watching) ~> (wpc = "done" \/ ctxDone)

\* C18: a login for a user with no entry in the mapping seen at the lookup is
\* never allowed.  No mapping in the store holds an empty password; a handler
\* that consults the store carries a user and a password that are not empty;
\* the lookup of a user without an entry yields false; and the handler that
\* leaves the read lock with such a user answers 200 with Reject.
C18_UnknownUserRejected ==
    [][/\ \A k \in DOMAIN Data' : Data'[k] # EmptyStr
       /\ \A h \in Handlers :
            /\ hpc'[h] \in {"rlock", "lookup", "runlock"} =>
                  huser'[h] # EmptyStr /\ hpassword'[h] # EmptyStr
            /\ (hpc[h] = "lookup" /\ hpc'[h] = "runlock"
                  /\ huser[h] \notin DOMAIN Data) =>
                  hcheck'[h] = << FALSE >>
            /\ (hpc[h] = "runlock" /\ hpc'[h] = "done"
                  /\ huser[h] \notin DOMAIN Data) =>
                  /\ hresp'[h].status = StatusOK
                  /\ hresp'[h].body.reject = TRUE
                  /\ hresp'[h].body.unchange = FALSE
      ]_vars

\* after a reload that dropped user a, a login of a with the password a had
\* has been looked up under the read lock and found wanting
C18_Witness ==
    /\ hpc[1] = "runlock"
    /\ huser[1] = << "a" >>
    /\ hpassword[1] = << "a" >>
    /\ hcheck[1] = << FALSE >>
    /\ Data = MapRewritten
    /\ << "a" >> \notin DOMAIN Data

\* C19: handling a request never changes shared state.  Every step of a
\* handler leaves the mapping, the queue, the file and the writer's side of
\* the lock as they were; the read lock is held by exactly the handlers
\* between RLock and RUnlock, so a handler that has returned holds no lock;
\* and once the store is built its mapping changes only by the assignment
\* of the coordinator, made under the write lock with the mapping it read.
C19_HandlerLeavesStateAlone ==
    [][/\ \A h \in Handlers :
            hpc'[h] # hpc[h] =>
                /\ Data' = Data /\ installed' = installed
                /\ RefreshChan' = RefreshChan
                /\ lockWriter' = lockWriter /\ lockPending' = lockPending
                /\ file' = file /\ ctxDone' = ctxDone
       /\ lockReaders' =
            Cardinality({ h \in Handlers : hpc'[h] \in {"lookup", "runlock"} })
       /\ (Data' # Data /\ mpc # "load") =>
            /\ cpc = "assign" /\ cpc' = "unlock"
            /\ lockWriter /\ lockReaders = 0
            /\ Data' = cAuthMap /\ cAuthMap = MapOfContent[cBytes]
      ]_vars

\* an accepted login has been answered and its handler holds no lock, while a
\* signal for the rewritten file waits in the queue and the mapping is still
\* the one loaded at start
C19_Witness ==
    /\ hpc[1] = "done"
    /\ hresp[1] = DecisionResp(FALSE, EmptyStr, TRUE)
    /\ lockReaders = 0
    /\ RefreshChan = 1
    /\ file = FileRewritten
    /\ Data = MapAtStart

\* C20: with live reload disabled neither the watcher nor the coordinator is
\* ever started, nothing is counted in the wait group, no event is watched
\* for and no signal queued; the mapping is the one the initial load built
\* from the file as it then was and never changes afterwards, whatever
\* happens to the file; and once the listener has returned the wait on the
\* wait group can return at once and NewServer returns.
C20_NoReloadWhenDisabled ==
    [][~cfgInotify' =>
         /\ wpc' = "none" /\ cpc' = "none"
         /\ wg' = 0 /\ RefreshChan' = 0
         /\ ~watching' /\ events' = << >>
         /\ (mpc = "load" /\ mpc' = "spawn") => Data' = MapOfContent[file]
         /\ mpc \notin {"start", "load"} => Data' = Data
         /\ (mpc = "wait" /\ ~halted) => ENABLED MWait
         /\ (mpc = "wait" /\ mpc' # "wait") => mpc' = "returned"
      ]_vars

\* live reload is off, the file was rewritten while the server was serving,
\* the listener has exited and NewServer has returned with the mapping of
\* the initial load still in the store
C20_Witness ==
    /\ ~cfgInotify
    /\ mpc = "returned"
    /\ file = FileRewritten
    /\ Data = MapAtStart
    /\ wg = 0


====
